---------------------------- MODULE Spec2Model ----------------------------
(***************************************************************************)
(* The paper-trading ledger of STOCK-AI.                                   *)
(*                                                                         *)
(* The ledger lives in three localStorage records ('balance', 'portfolio', *)
(* 'transactions').  Two kinds of surface trade on it:                     *)
(*   - StockPredictionWidget.handleTrade, which reads the records afresh   *)
(*     on every trade and writes them back one by one;                     *)
(*   - DemoTrading.handlePortfolioTrade, which trades on the copy of the   *)
(*     records the component loaded when it was mounted and writes that    *)
(*     copy back through updateAll.                                        *)
(* localStorage is shared by every tab of the origin, so a widget and      *)
(* several DemoTrading instances can be alive at the same time.            *)
(***************************************************************************)
EXTENDS Integers, Sequences, FiniteSets, TLC

VARIABLES
    store,        \* localStorage: the three ledger records, as stored text
    widget,       \* StockPredictionWidget: "unmounted" | "mounted"
    prediction,   \* StockPredictionWidget's `prediction` state
    demo,         \* DemoTrading instances: status, balance, portfolio, transactions
    accepted,     \* history: the trades that ended with "order placed"
    pricesValid,  \* history: every current_price received so far was finite and >= 0
    clock,        \* Date.now(), read by new Date() when a trade builds its transaction
    faults,       \* environment: the setItem calls that have thrown so far
    calls,        \* the fetchPrediction invocations: where each is, and what it did
    timers,       \* the setTimeout timer of each invocation
    timeoutRef,   \* StockPredictionWidget's timeoutRef.current
    loading,      \* StockPredictionWidget's `loading` state
    error,        \* StockPredictionWidget's `error` state
    time,         \* Date.now(), in ms, as the yahooApi interceptors read it
    lastYahooApiCall,  \* the module variable of the rate limiter
    yahoo,        \* the calls made through yahooApi: where each is
    dispatched    \* history: the times at which yahooApi put a request on the wire

\* the state of the prediction fetch
fetchVars == <<calls, timers, timeoutRef, loading, error>>

\* the state of the Yahoo Finance client
yahooVars == <<time, lastYahooApiCall, yahoo, dispatched>>

vars == <<store, widget, prediction, demo, accepted, pricesValid, clock, faults,
          calls, timers, timeoutRef, loading, error,
          time, lastYahooApiCall, yahoo, dispatched>>

---------------------------------------------------------------------------
(* Bounds of the model *)

\* trades that get as far as building their transaction record, in one behaviour
MaxTrades == 3
\* the largest quantity typed into window.prompt
MaxQty == 2
\* setItem calls that throw in one behaviour
MaxFaults == 1

(* Program constants *)

\* '1000000', the seed balance
SeedBalance == 1000000

Tickers == {"TCS", "INFY"}

---------------------------------------------------------------------------
(* JavaScript numbers: a finite value, +/-Infinity, NaN; null where JSON    *)
(* put it.  Prices and quantities of the model are whole numbers, which a  *)
(* double represents exactly below 2^53.                                   *)

Num(n) == [k |-> "num", v |-> n]
Infinity == [k |-> "inf", v |-> 0]
NegInfinity == [k |-> "ninf", v |-> 0]
NaN == [k |-> "nan", v |-> 0]
Null == [k |-> "null", v |-> 0]

\* null converts to 0 in arithmetic and comparison
ToNumber(a) == IF a.k = "null" THEN Num(0) ELSE a

Sign(a) == CASE a.k = "inf" -> 1
             [] a.k = "ninf" -> -1
             [] a.k = "num" -> (IF a.v > 0 THEN 1 ELSE IF a.v < 0 THEN -1 ELSE 0)
             [] OTHER -> 0

\* a + b
Add(x, y) ==
    LET a == ToNumber(x)
        b == ToNumber(y)
    IN  IF a.k = "nan" \/ b.k = "nan" THEN NaN
        ELSE IF a.k = "num" /\ b.k = "num" THEN Num(a.v + b.v)
        ELSE IF a.k = "num" THEN b
        ELSE IF b.k = "num" THEN a
        ELSE IF a.k = b.k THEN a
        ELSE NaN

\* -a
Neg(x) ==
    LET a == ToNumber(x)
    IN  CASE a.k = "num" -> Num(0 - a.v)
          [] a.k = "inf" -> NegInfinity
          [] a.k = "ninf" -> Infinity
          [] OTHER -> NaN

\* a - b
Sub(x, y) == Add(x, Neg(y))

\* a * b
Mul(x, y) ==
    LET a == ToNumber(x)
        b == ToNumber(y)
    IN  IF a.k = "nan" \/ b.k = "nan" THEN NaN
        ELSE IF a.k = "num" /\ b.k = "num" THEN Num(a.v * b.v)
        ELSE IF Sign(a) * Sign(b) > 0 THEN Infinity
        ELSE IF Sign(a) * Sign(b) < 0 THEN NegInfinity
        ELSE NaN

\* a > b
Gt(x, y) ==
    LET a == ToNumber(x)
        b == ToNumber(y)
    IN  IF a.k = "nan" \/ b.k = "nan" THEN FALSE
        ELSE IF a.k = "num" /\ b.k = "num" THEN a.v > b.v
        ELSE IF a.k = "inf" THEN b.k # "inf"
        ELSE IF a.k = "ninf" THEN FALSE
        ELSE b.k = "ninf"

\* !a
Falsy(a) == a.k \in {"undefined", "null", "nan"} \/ (a.k = "num" /\ a.v = 0)

\* isNaN(a)
isNaN(a) == a.k = "nan"

IsFinite(a) == a.k = "num"

---------------------------------------------------------------------------
(* Stored text.  A record of localStorage is absent (getItem gives null) or *)
(* holds a string.  The strings of the model:                              *)
(*   "dec"   the decimal numeral of the integer v                          *)
(*   "Infinity", "-Infinity", "NaN"   what Number.toString gives for them  *)
(*   "json"  the JSON text of the array v                                  *)
(*   "bad"   a string that is neither a numeral nor JSON, such as "abc"    *)

Absent == [k |-> "absent", v |-> 0]
AbsentList == [k |-> "absent", v |-> <<>>]
BadText == [k |-> "bad", v |-> 0]
BadJSON == [k |-> "bad", v |-> <<>>]

\* Number.prototype.toString
toString(a) ==
    CASE a.k = "num" -> [k |-> "dec", v |-> a.v]
      [] a.k = "inf" -> [k |-> "Infinity", v |-> 0]
      [] a.k = "ninf" -> [k |-> "-Infinity", v |-> 0]
      [] OTHER -> [k |-> "NaN", v |-> 0]

\* parseFloat of a stored string
parseFloat(t) ==
    CASE t.k = "dec" -> Num(t.v)
      [] t.k = "Infinity" -> Infinity
      [] t.k = "-Infinity" -> NegInfinity
      [] OTHER -> NaN

\* JSON.stringify of a number: a non-finite number is written as null
JSONnumber(a) == IF a.k = "num" THEN a ELSE Null

\* JSON.stringify of the holdings array [{ticker, quantity}]
JSONstringifyPortfolio(p) == [k |-> "json", v |-> p]

\* JSON.stringify of the transactions array [{ticker, type, quantity, price, timestamp}]
JSONstringifyTransactions(txs) ==
    [k |-> "json", v |-> [i \in DOMAIN txs |-> [txs[i] EXCEPT !.price = JSONnumber(@)]]]

\* JSON.parse throws SyntaxError on a string that is not JSON
JSONparseThrows(t) == t.k = "bad"

\* JSON.parse of a JSON text
JSONparse(t) == t.v

\* localStorage.getItem(key) || '[]'
getItemOrEmptyList(t) == IF t.k = "absent" THEN [k |-> "json", v |-> <<>>] ELSE t

\* getItemOrSeed without the default
getItemOrSeed_noDefault(t) == t

\* localStorage.getItem('balance') || '1000000'
getItemOrSeed(t) == IF t.k = "absent" THEN [k |-> "dec", v |-> SeedBalance] ELSE t

---------------------------------------------------------------------------
(* What the user types into window.prompt:                                  *)
(*   "cancel"   the prompt was dismissed (null)                            *)
(*   "empty"    the empty string                                           *)
(*   "numeral"  the decimal numeral of the integer v                       *)
(*   "bad"      a string that starts with no digit, such as "abc"          *)

PromptInputs ==
    {[k |-> "cancel", v |-> 0], [k |-> "empty", v |-> 0], [k |-> "bad", v |-> 0]}
    \cup {[k |-> "numeral", v |-> n] : n \in (0 - 1)..MaxQty}

\* parseInt(qtyStr, 10): the leading integer of the string, NaN if there is none
parseInt(s) == IF s.k = "numeral" THEN Num(s.v) ELSE NaN

\* array.findIndex(item => item.ticker === ticker); 0 stands for -1
findIndex(arr, ticker) ==
    IF \E i \in DOMAIN arr : arr[i].ticker = ticker
    THEN CHOOSE i \in DOMAIN arr :
            /\ arr[i].ticker = ticker
            /\ \A j \in DOMAIN arr : arr[j].ticker = ticker => i <= j
    ELSE 0

\* [...transactions].reverse().find(tx => tx.ticker === ticker); 0 when there is none
findLastIndex(arr, ticker) ==
    IF \E i \in DOMAIN arr : arr[i].ticker = ticker
    THEN CHOOSE i \in DOMAIN arr :
            /\ arr[i].ticker = ticker
            /\ \A j \in DOMAIN arr : arr[j].ticker = ticker => j <= i
    ELSE 0

\* array.splice(idx, 1)
splice(arr, idx) == [i \in 1..(Len(arr) - 1) |-> IF i < idx THEN arr[i] ELSE arr[i + 1]]

\* sellHolding without the splice at zero
sellHolding_keepsZero(arr, idx, quantity) ==
    IF idx = 0 THEN arr
    ELSE [arr EXCEPT ![idx].quantity = @ - quantity]

\* the SELL branch on the holdings: subtract, and drop the entry at zero
sellHolding(arr, idx, quantity) ==
    IF idx = 0 THEN arr
    ELSE IF arr[idx].quantity - quantity = 0 THEN splice(arr, idx)
    ELSE [arr EXCEPT ![idx].quantity = @ - quantity]

\* the BUY branch on the holdings: add to the entry, or push a new one
buyHolding(arr, idx, ticker, quantity) ==
    IF idx > 0 THEN [arr EXCEPT ![idx].quantity = @ + quantity]
    ELSE Append(arr, [ticker |-> ticker, quantity |-> quantity])

\* quantity > currentQty: the SELL is for more than is held
exceedsHoldings(quantity, currentQty) == quantity > currentQty

\* exceedsBalance with the comparison the wrong way round
exceedsBalance_flipped(totalValue, balance) == Gt(balance, totalValue)

\* totalValue > balance: the BUY costs more than the cash at hand
exceedsBalance(totalValue, balance) == Gt(totalValue, balance)

\* what a trade handler did: the records after it, the alert it showed, and how it ended
\*   "cancelled" | "invalid" | "noprice" | "holdings" | "funds" | "placed" | "savefailed" | "threw"
\* the last three are the ways a trade ends once it has built its transaction record
Committing == {"placed", "savefailed", "threw"}
Result(st, msg, outcome) == [store |-> st, alert |-> msg, outcome |-> outcome]

---------------------------------------------------------------------------
(* StockPredictionWidget.handleTrade *)

\* the three writes that end handleTrade; setItem number `fail` throws (0: none does)
commitTrade(st, portfolio, balance, transaction, fail) ==
    LET s1 == [st EXCEPT !.portfolio = JSONstringifyPortfolio(portfolio)]
        s2 == [s1 EXCEPT !.balance = toString(balance)]
        text == getItemOrEmptyList(s2.transactions)
    IN  IF fail = 1 THEN Result(st, "none", "threw")
        ELSE IF fail = 2 THEN Result(s1, "none", "threw")
        ELSE IF JSONparseThrows(text) \/ fail = 3
             THEN Result(s2, "Failed to save transaction", "savefailed")
        ELSE Result([s2 EXCEPT !.transactions =
                        JSONstringifyTransactions(Append(JSONparse(text), transaction))],
                    "order placed", "placed")

handleTrade(st, pred, type, qtyStr, fail, now) ==
    IF qtyStr.k \in {"cancel", "empty"} THEN Result(st, "none", "cancelled")
    ELSE IF isNaN(parseInt(qtyStr)) \/ parseInt(qtyStr).v <= 0
         THEN Result(st, "Invalid quantity", "invalid")
    ELSE
    LET quantity == parseInt(qtyStr).v
        stored == getItemOrEmptyList(st.portfolio)
        portfolio == IF JSONparseThrows(stored) THEN <<>> ELSE JSONparse(stored)
        idx == findIndex(portfolio, pred.ticker)
        currentQty == IF idx > 0 THEN portfolio[idx].quantity ELSE 0
        balance == parseFloat(getItemOrSeed(st.balance))
        totalValue == Mul(pred.current_price, Num(quantity))
        transaction == [ticker |-> pred.ticker, type |-> type, quantity |-> quantity,
                        price |-> pred.current_price, timestamp |-> now]
    IN  IF type = "SELL"
        THEN IF exceedsHoldings(quantity, currentQty)
             THEN Result(st, "You cannot sell more than you own!", "holdings")
             ELSE commitTrade(st, sellHolding(portfolio, idx, quantity),
                              Add(balance, totalValue), transaction, fail)
        ELSE IF exceedsBalance(totalValue, balance)
             THEN Result(st, "Insufficient balance!", "funds")
             ELSE commitTrade(st, buyHolding(portfolio, idx, pred.ticker, quantity),
                              Sub(balance, totalValue), transaction, fail)

---------------------------------------------------------------------------
(* DemoTrading *)

\* the useState defaults of a DemoTrading instance
DemoDefaults(status) ==
    [status |-> status, balance |-> Num(SeedBalance), portfolio |-> <<>>, transactions |-> <<>>]

\* the mount effect: load the three records; an exception of JSON.parse is not caught
loadDemo(st) ==
    LET p == getItemOrEmptyList(st.portfolio)
        t == getItemOrEmptyList(st.transactions)
    IN  IF JSONparseThrows(p) \/ JSONparseThrows(t) THEN DemoDefaults("crashed")
        ELSE [status |-> "mounted",
              balance |-> parseFloat(getItemOrSeed(st.balance)),
              portfolio |-> JSONparse(p),
              transactions |-> JSONparse(t)]

\* updateAll: the three setState calls, then the three writes; setItem number `fail` throws
updateAll(st, newBalance, newPortfolio, newTransactions, fail) ==
    LET s1 == [st EXCEPT !.balance = toString(newBalance)]
        s2 == [s1 EXCEPT !.portfolio = JSONstringifyPortfolio(newPortfolio)]
        s3 == [s2 EXCEPT !.transactions = JSONstringifyTransactions(newTransactions)]
    IN  [state |-> [status |-> "mounted", balance |-> newBalance,
                    portfolio |-> newPortfolio, transactions |-> newTransactions],
         result |-> IF fail = 1 THEN Result(st, "none", "threw")
                    ELSE IF fail = 2 THEN Result(s1, "none", "threw")
                    ELSE IF fail = 3 THEN Result(s2, "none", "threw")
                    ELSE Result(s3, "order placed", "placed")]

\* the price handlePortfolioTrade trades at: that of the last transaction of the ticker
lastPrice(transactions, ticker) ==
    IF findLastIndex(transactions, ticker) > 0
    THEN transactions[findLastIndex(transactions, ticker)].price
    ELSE Num(0)

handlePortfolioTrade(st, d, ticker, type, qtyStr, fail, now) ==
    LET keep(msg, outcome) == [state |-> d, result |-> Result(st, msg, outcome)]
    IN
    IF qtyStr.k \in {"cancel", "empty"} THEN keep("none", "cancelled")
    ELSE IF isNaN(parseInt(qtyStr)) \/ parseInt(qtyStr).v <= 0
         THEN keep("Invalid quantity", "invalid")
    ELSE IF Falsy(lastPrice(d.transactions, ticker))
         THEN keep("No price info available for this ticker", "noprice")
    ELSE
    LET quantity == parseInt(qtyStr).v
        price == lastPrice(d.transactions, ticker)
        idx == findIndex(d.portfolio, ticker)
        currentQty == IF idx > 0 THEN d.portfolio[idx].quantity ELSE 0
        totalCost == Mul(price, Num(quantity))
        newTx == [ticker |-> ticker, type |-> type, quantity |-> quantity,
                  price |-> price, timestamp |-> now]
        newTransactions == Append(d.transactions, newTx)
    IN  IF type = "SELL"
        THEN IF exceedsHoldings(quantity, currentQty)
             THEN keep("You cannot sell more than you own!", "holdings")
             ELSE updateAll(st, Add(d.balance, totalCost),
                            sellHolding(d.portfolio, idx, quantity), newTransactions, fail)
        ELSE IF exceedsBalance(totalCost, d.balance)
             THEN keep("Insufficient balance!", "funds")
             ELSE updateAll(st, Sub(d.balance, totalCost),
                            buyHolding(d.portfolio, idx, ticker, quantity), newTransactions, fail)

---------------------------------------------------------------------------
(* The state machine *)

\* DemoTrading instances: tabs of the origin that show /demo-trading
Demos == {"d1", "d2"}

\* current_price values a prediction response can carry (typeof === 'number'):
\* JSON gives finite numbers, and Infinity for a numeral beyond the double range
PriceInputs == {Num(500000), Infinity}

\* which setItem call of a commit throws (QuotaExceededError): the first, second or third
FailInputs == 1..3

\* fetchPrediction invocations of one behaviour
Calls == {"c1", "c2"}

\* a field the response does not have
Undefined == [k |-> "undefined", v |-> 0]
UndefinedList == [k |-> "undefined", v |-> <<>>]

\* a JSON array
Array(s) == [k |-> "array", v |-> s]

\* a confidence value; v counts thousandths, so that 0.005 and 0.82 are values
Confidence(n) == [k |-> "num", v |-> n]

\* response.data of a prediction that was not received
NoData ==
    [ticker |-> "", current_price |-> Undefined, prediction_dates |-> UndefinedList,
     prediction_prices |-> UndefinedList, predicted_prices |-> UndefinedList,
     confidence |-> Undefined]

\* the normalizedData of a prediction that was not stored
NoRecord ==
    [ticker |-> "none", current_price |-> Null, prediction_dates |-> Array(<<>>),
     prediction_prices |-> Array(<<>>), confidence |-> Null]

\* an invocation that has not been made
\*   pc: "idle" | "request" (an HTTP attempt is in flight) | "backoff" | "done"
\*   simplify, retries: the arguments and the counter of the running stockApi.predict
\*   sent, sentSimplified: HTTP attempts made with simplify=false / simplify=true
\*   delays: the backoff delays of the running stockApi.predict, in ms
\*   err: the error the primary stockApi.predict threw
\*   raw: the response.data the invocation ended with; stored: what it gave setPrediction
\*   outcome: "none" | "accepted" | "rejected" | "failed"
IdleCall ==
    [symbol |-> "none", pc |-> "idle", simplify |-> FALSE, retries |-> 0,
     sent |-> 0, sentSimplified |-> 0, delays |-> <<>>, err |-> "none",
     raw |-> NoData, stored |-> NoRecord, outcome |-> "none"]

\* an error message and the symbol it names
Message(msg, symbol) == [msg |-> msg, symbol |-> symbol, detail |-> "none"]

\* useState<string | null>(null)
NoError == Message("null", "none")

\* calls made through yahooApi in one behaviour
Requests == {"r1", "r2", "r3"}

\* a call that has not been made
\*   pc: "idle" | "delayed" (the request interceptor waits) | "inflight" |
\*       "retrywait" (the response interceptor waits after a 429) | "done" | "failed"
\*   wakeAt: when the setTimeout of the wait is due; sent: HTTP requests made for the call
IdleRequest == [pc |-> "idle", wakeAt |-> 0, sent |-> 0]

\* a moment at which the module has just been loaded: Date.now() is far from 0
LoadTime == 10 * 1000

\* the Yahoo Finance client before its first call
YahooDefaults ==
    /\ time = LoadTime
    /\ lastYahooApiCall = 0
    /\ yahoo = [r \in Requests |-> IdleRequest]
    /\ dispatched = <<>>

\* the widget's fetch state as useState and useRef create it
WidgetDefaults ==
    /\ YahooDefaults
    /\ calls = [c \in Calls |-> IdleCall]
    /\ timers = [c \in Calls |-> "none"]
    /\ timeoutRef = "null"
    /\ loading = FALSE
    /\ error = NoError

\* useState(null)
NoPrediction == [ticker |-> "none", current_price |-> Null]

EmptyStore == [balance |-> Absent, portfolio |-> AbsentList, transactions |-> AbsentList]

Init ==
    /\ store = EmptyStore
    /\ widget = "unmounted"
    /\ prediction = NoPrediction
    /\ demo = [d \in Demos |-> DemoDefaults("unmounted")]
    /\ accepted = <<>>
    /\ pricesValid = TRUE
    /\ clock = 0
    /\ faults = 0
    /\ WidgetDefaults

\* StockPredictionWidget is mounted: 'balance' is seeded when it is absent
initBalance(st) ==
    IF st.balance.k = "absent"
    THEN [st EXCEPT !.balance = [k |-> "dec", v |-> SeedBalance]]
    ELSE st

MountWidget ==
    /\ widget = "unmounted"
    /\ widget' = "mounted"
    /\ prediction' = NoPrediction
    /\ store' = initBalance(store)
    /\ UNCHANGED <<demo, accepted, pricesValid, clock, faults>>
    /\ UNCHANGED <<fetchVars, yahooVars>>

\* fetchPrediction ends with setPrediction(normalizedData)
ReceivePrediction(t, p) ==
    /\ widget = "mounted"
    /\ prediction' = [ticker |-> t, current_price |-> p]
    /\ pricesValid' = (pricesValid /\ IsFinite(p) /\ p.v >= 0)
    /\ UNCHANGED <<store, widget, demo, accepted, clock, faults>>
    /\ UNCHANGED <<fetchVars, yahooVars>>

\* a click on Buy or Sell of the widget; the buttons are rendered with a prediction only
TradeWidget(type, qtyStr, fail) ==
    /\ widget = "mounted"
    /\ prediction # NoPrediction
    /\ clock < MaxTrades
    /\ LET r == handleTrade(store, prediction, type, qtyStr, fail, clock + 1)
       IN  /\ store' = r.store
           /\ accepted' = IF r.outcome = "placed"
                          THEN Append(accepted,
                                      [ticker |-> prediction.ticker, type |-> type,
                                       quantity |-> parseInt(qtyStr).v,
                                       price |-> prediction.current_price,
                                       timestamp |-> clock + 1])
                          ELSE accepted
           /\ clock' = IF r.outcome \in Committing THEN clock + 1 ELSE clock
    /\ faults' = IF fail = 0 THEN faults ELSE faults + 1
    /\ UNCHANGED <<widget, prediction, demo, pricesValid>>
    /\ UNCHANGED <<fetchVars, yahooVars>>

\* a DemoTrading instance is mounted and loads the ledger
MountDemo(d) ==
    /\ demo[d].status = "unmounted"
    /\ demo' = [demo EXCEPT ![d] = loadDemo(store)]
    /\ UNCHANGED <<store, widget, prediction, accepted, pricesValid, clock, faults>>
    /\ UNCHANGED <<fetchVars, yahooVars>>

\* the user leaves /demo-trading
UnmountDemo(d) ==
    /\ demo[d].status # "unmounted"
    /\ demo' = [demo EXCEPT ![d] = DemoDefaults("unmounted")]
    /\ UNCHANGED <<store, widget, prediction, accepted, pricesValid, clock, faults>>
    /\ UNCHANGED <<fetchVars, yahooVars>>

\* a click on Buy or Sell in a row of the portfolio table of a DemoTrading instance
TradeDemo(d, ticker, type, qtyStr, fail) ==
    /\ demo[d].status = "mounted"
    /\ findIndex(demo[d].portfolio, ticker) > 0
    /\ clock < MaxTrades
    /\ LET r == handlePortfolioTrade(store, demo[d], ticker, type, qtyStr, fail, clock + 1)
       IN  /\ store' = r.result.store
           /\ demo' = [demo EXCEPT ![d] = r.state]
           /\ accepted' = IF r.result.outcome = "placed"
                          THEN Append(accepted,
                                      [ticker |-> ticker, type |-> type,
                                       quantity |-> parseInt(qtyStr).v,
                                       price |-> lastPrice(demo[d].transactions, ticker),
                                       timestamp |-> clock + 1])
                          ELSE accepted
           /\ clock' = IF r.result.outcome \in Committing THEN clock + 1 ELSE clock
    /\ faults' = IF fail = 0 THEN faults ELSE faults + 1
    /\ UNCHANGED <<widget, prediction, pricesValid>>
    /\ UNCHANGED <<fetchVars, yahooVars>>

Next ==
    \/ MountWidget
    \/ \E t \in Tickers, p \in PriceInputs : ReceivePrediction(t, p)
    \/ \E type \in {"BUY", "SELL"}, q \in PromptInputs : TradeWidget(type, q, 0)
    \/ \E d \in Demos : MountDemo(d)
    \/ \E d \in Demos : UnmountDemo(d)
    \/ \E d \in Demos, t \in Tickers, type \in {"BUY", "SELL"}, q \in PromptInputs :
          TradeDemo(d, t, type, q, 0)

\* the surfaces trading on a localStorage whose writes succeed
Spec == Init /\ [][Next]_vars

\* a trade of the widget during which a setItem call throws
TradeWidgetQuota(type, qtyStr, fail) ==
    /\ faults < MaxFaults
    /\ handleTrade(store, prediction, type, qtyStr, 0, clock + 1).outcome = "placed"
    /\ TradeWidget(type, qtyStr, fail)

\* a trade of a DemoTrading instance during which a setItem call throws
TradeDemoQuota(d, ticker, type, qtyStr, fail) ==
    /\ faults < MaxFaults
    /\ handlePortfolioTrade(store, demo[d], ticker, type, qtyStr, 0, clock + 1).result.outcome
          = "placed"
    /\ TradeDemo(d, ticker, type, qtyStr, fail)

NextQuota ==
    \/ Next
    \/ \E type \in {"BUY", "SELL"}, q \in PromptInputs, f \in FailInputs :
          TradeWidgetQuota(type, q, f)
    \/ \E d \in Demos, t \in Tickers, type \in {"BUY", "SELL"}, q \in PromptInputs,
          f \in FailInputs : TradeDemoQuota(d, t, type, q, f)

\* the same surfaces on a localStorage whose writes can fail
SpecQuota == Init /\ [][NextQuota]_vars

---------------------------------------------------------------------------
(* The persisted ledger, as a reader of the three records sees it *)

StoredBalance == parseFloat(getItemOrSeed(store.balance))

StoredPortfolio ==
    IF JSONparseThrows(getItemOrEmptyList(store.portfolio)) THEN <<>>
    ELSE JSONparse(getItemOrEmptyList(store.portfolio))

StoredTransactions ==
    IF JSONparseThrows(getItemOrEmptyList(store.transactions)) THEN <<>>
    ELSE JSONparse(getItemOrEmptyList(store.transactions))

\* the quantity of a ticker in a holdings array, 0 when it has no entry
HeldQty(arr, ticker) ==
    IF findIndex(arr, ticker) > 0 THEN arr[findIndex(arr, ticker)].quantity ELSE 0

RECURSIVE NetQty(_, _)
\* BUY quantities minus SELL quantities of a ticker in a sequence of transactions
NetQty(txs, ticker) ==
    IF txs = <<>> THEN 0
    ELSE LET tx == txs[Len(txs)]
             rest == NetQty(SubSeq(txs, 1, Len(txs) - 1), ticker)
         IN  IF tx.ticker # ticker THEN rest
             ELSE IF tx.type = "BUY" THEN rest + tx.quantity
             ELSE rest - tx.quantity

RECURSIVE NetCash(_)
\* SELL proceeds minus BUY costs of a sequence of transactions
NetCash(txs) ==
    IF txs = <<>> THEN Num(0)
    ELSE LET tx == txs[Len(txs)]
             rest == NetCash(SubSeq(txs, 1, Len(txs) - 1))
             value == Mul(tx.price, Num(tx.quantity))
         IN  IF tx.type = "BUY" THEN Sub(rest, value) ELSE Add(rest, value)

\* the positive quantities the user can type
Quantities == 1..MaxQty

Numeral(n) == [k |-> "numeral", v |-> n]

---------------------------------------------------------------------------
(* C1: from the seed ledger, as long as every trade was made at a finite,  *)
(* non-negative price, the persisted cash balance is a number >= 0 in      *)
(* every reachable state, whichever surfaces traded and in whatever order. *)
C1_BalanceNonNegative ==
    pricesValid => (IsFinite(StoredBalance) /\ StoredBalance.v >= 0)

\* a BUY that costs exactly the balance has been placed and the cash is 0
C1_Witness ==
    /\ pricesValid
    /\ \E i \in DOMAIN accepted : accepted[i].type = "BUY"
    /\ StoredBalance = Num(0)

---------------------------------------------------------------------------
(* C2: in every reachable state, for every ticker, the quantity in the     *)
(* persisted 'portfolio' record (0 without an entry) equals the BUY        *)
(* quantities minus the SELL quantities of that ticker in the persisted    *)
(* 'transactions' record.                                                  *)
C2_HoldingsMatchLog ==
    \A t \in Tickers : HeldQty(StoredPortfolio, t) = NetQty(StoredTransactions, t)

---------------------------------------------------------------------------
\* the persisted log holds the record of the trade, as JSON writes it
InLog(tx) ==
    \E j \in DOMAIN StoredTransactions :
        StoredTransactions[j] = [tx EXCEPT !.price = JSONnumber(@)]

(* C3: no accepted trade is lost: every trade that ended with "order       *)
(* placed" is in the persisted transaction log, the persisted holdings are *)
(* the net of the accepted trades, and (at finite prices) the persisted    *)
(* balance is the seed plus the net cash of the accepted trades.           *)
C3_NoLostTrade ==
    /\ \A i \in DOMAIN accepted : InLog(accepted[i])
    /\ \A t \in Tickers : HeldQty(StoredPortfolio, t) = NetQty(accepted, t)
    /\ pricesValid => StoredBalance = Add(Num(SeedBalance), NetCash(accepted))

---------------------------------------------------------------------------
(* C4: a commit is atomic: in no reachable state do the persisted balance  *)
(* and holdings reflect a trade that the persisted transaction log lacks,  *)
(* or the log a trade they lack: replaying the log from the seed gives the *)
(* persisted holdings and (at finite prices) the persisted balance.        *)
C4_CommitAtomic ==
    /\ \A t \in Tickers : NetQty(StoredTransactions, t) = HeldQty(StoredPortfolio, t)
    /\ pricesValid => Add(Num(SeedBalance), NetCash(StoredTransactions)) = StoredBalance

---------------------------------------------------------------------------
(* C5: on every surface, a SELL of more than the persisted holding of the  *)
(* ticker is rejected and leaves the three records as they were; and no    *)
(* persisted holding is below zero.                                        *)
C5_OversellRejected ==
    /\ prediction # NoPrediction =>
         \A q \in Quantities :
            q > HeldQty(StoredPortfolio, prediction.ticker) =>
               LET r == handleTrade(store, prediction, "SELL", Numeral(q), 0, clock + 1)
               IN  r.store = store /\ r.outcome \notin Committing
    /\ \A d \in Demos, t \in Tickers, q \in Quantities :
          (/\ demo[d].status = "mounted"
           /\ findIndex(demo[d].portfolio, t) > 0
           /\ q > HeldQty(StoredPortfolio, t)) =>
             LET r == handlePortfolioTrade(store, demo[d], t, "SELL", Numeral(q), 0, clock + 1)
             IN  r.result.store = store /\ r.result.outcome \notin Committing
    /\ \A i \in DOMAIN StoredPortfolio : StoredPortfolio[i].quantity >= 0

\* the same statement for the widget alone
C5_WidgetOversellRejected ==
    prediction # NoPrediction =>
       \A q \in Quantities :
          q > HeldQty(StoredPortfolio, prediction.ticker) =>
             LET r == handleTrade(store, prediction, "SELL", Numeral(q), 0, clock + 1)
             IN  r.store = store /\ r.outcome = "holdings"

---------------------------------------------------------------------------
\* what a BUY of the given cost is to do against the persisted balance
BuyAsClaimed(r, cost) ==
    IF Gt(cost, StoredBalance)
    THEN r.store = store /\ r.outcome \notin Committing
    ELSE cost = StoredBalance =>
            r.outcome = "placed" /\ parseFloat(getItemOrSeed(r.store.balance)) = Num(0)

(* C6: on every surface, a BUY at a finite price whose cost is above the   *)
(* persisted balance is rejected and leaves the three records as they      *)
(* were; a BUY whose cost equals the balance is placed and leaves 0.       *)
C6_OverspendRejected ==
    /\ (prediction # NoPrediction /\ IsFinite(prediction.current_price)) =>
         \A q \in Quantities :
            BuyAsClaimed(handleTrade(store, prediction, "BUY", Numeral(q), 0, clock + 1),
                         Mul(prediction.current_price, Num(q)))
    /\ \A d \in Demos, t \in Tickers, q \in Quantities :
          (/\ demo[d].status = "mounted"
           /\ findIndex(demo[d].portfolio, t) > 0
           /\ ~Falsy(lastPrice(demo[d].transactions, t))) =>
             BuyAsClaimed(
                handlePortfolioTrade(store, demo[d], t, "BUY", Numeral(q), 0, clock + 1).result,
                Mul(lastPrice(demo[d].transactions, t), Num(q)))

\* the same statement for the widget alone
C6_WidgetOverspendRejected ==
    (prediction # NoPrediction /\ IsFinite(prediction.current_price)) =>
       \A q \in Quantities :
          BuyAsClaimed(handleTrade(store, prediction, "BUY", Numeral(q), 0, clock + 1),
                       Mul(prediction.current_price, Num(q)))

---------------------------------------------------------------------------
(* C7: on every surface, a trade request with a quantity of 0 or below, or *)
(* at a price that is not a finite number, is rejected and writes nothing  *)
(* to the ledger.                                                          *)
C7_InvalidRequestRejected ==
    /\ prediction # NoPrediction =>
         \A type \in {"BUY", "SELL"}, q \in (0 - 1)..MaxQty :
            (q <= 0 \/ ~IsFinite(prediction.current_price)) =>
               LET r == handleTrade(store, prediction, type, Numeral(q), 0, clock + 1)
               IN  r.store = store /\ r.outcome \notin Committing
    /\ \A d \in Demos, t \in Tickers, type \in {"BUY", "SELL"}, q \in (0 - 1)..MaxQty :
          (/\ demo[d].status = "mounted"
           /\ findIndex(demo[d].portfolio, t) > 0
           /\ (q <= 0 \/ ~IsFinite(lastPrice(demo[d].transactions, t)))) =>
             LET r == handlePortfolioTrade(store, demo[d], t, type, Numeral(q), 0, clock + 1)
             IN  r.result.store = store /\ r.result.outcome \notin Committing

\* the part of the statement about quantities: it holds on both surfaces
C7_BadQuantityRejected ==
    /\ prediction # NoPrediction =>
         \A type \in {"BUY", "SELL"}, q \in PromptInputs :
            (q.k # "numeral" \/ q.v <= 0) =>
               LET r == handleTrade(store, prediction, type, q, 0, clock + 1)
               IN  r.store = store /\ r.outcome \in {"invalid", "cancelled"}
    /\ \A d \in Demos, t \in Tickers, type \in {"BUY", "SELL"}, q \in PromptInputs :
          (/\ demo[d].status = "mounted"
           /\ findIndex(demo[d].portfolio, t) > 0
           /\ (q.k # "numeral" \/ q.v <= 0)) =>
             LET r == handlePortfolioTrade(store, demo[d], t, type, q, 0, clock + 1)
             IN  r.result.store = store /\ r.result.outcome \in {"invalid", "cancelled"}

---------------------------------------------------------------------------
IsPrefix(a, b) == Len(a) <= Len(b) /\ SubSeq(b, 1, Len(a)) = a

(* C8: the persisted transaction log is append-only: a step keeps the log  *)
(* it found as a prefix of the log it leaves, an accepted trade leaves the *)
(* log it found followed by the record of that trade and nothing else, and *)
(* no other step changes the log.                                          *)
C8_LogAppendOnly ==
    [][/\ IsPrefix(StoredTransactions, StoredTransactions')
       /\ IF accepted' # accepted
          THEN StoredTransactions' =
                 Append(StoredTransactions,
                        [accepted'[Len(accepted')] EXCEPT !.price = JSONnumber(@)])
          ELSE StoredTransactions' = StoredTransactions]_vars

\* the same statement for the steps of the widget
C8_WidgetAppends ==
    [][(widget = "mounted" /\ demo' = demo) =>
         /\ IsPrefix(StoredTransactions, StoredTransactions')
         /\ IF accepted' # accepted
            THEN StoredTransactions' =
                   Append(StoredTransactions,
                          [accepted'[Len(accepted')] EXCEPT !.price = JSONnumber(@)])
            ELSE StoredTransactions' = StoredTransactions]_vars

---------------------------------------------------------------------------
(* C9: in every reachable state the persisted holdings have at most one    *)
(* entry per ticker and every entry has a quantity > 0.                    *)
C9_HoldingsWellFormed ==
    /\ \A i \in DOMAIN StoredPortfolio : StoredPortfolio[i].quantity > 0
    /\ \A i, j \in DOMAIN StoredPortfolio :
          StoredPortfolio[i].ticker = StoredPortfolio[j].ticker => i = j

\* two BUYs of a ticker went into one entry, and the SELL of all of it removed the entry
C9_Witness ==
    \E t \in Tickers :
        /\ Len(accepted) = 3
        /\ \A i \in 1..3 : accepted[i].ticker = t
        /\ accepted[1].type = "BUY" /\ accepted[2].type = "BUY" /\ accepted[3].type = "SELL"
        /\ accepted[3].quantity = accepted[1].quantity + accepted[2].quantity
        /\ findIndex(StoredPortfolio, t) = 0
        /\ Len(StoredTransactions) = 3

---------------------------------------------------------------------------
(* The surfaces on a localStorage that holds anything: each record is      *)
(* absent, well-formed, or a string that does not parse.                   *)

StoredStates ==
    [balance : {Absent, BadText, [k |-> "dec", v |-> SeedBalance]},
     portfolio : {AbsentList, BadJSON},
     transactions : {AbsentList, BadJSON}]

InitStore ==
    /\ store \in StoredStates
    /\ widget = "unmounted"
    /\ prediction = NoPrediction
    /\ demo = [d \in Demos |-> DemoDefaults("unmounted")]
    /\ accepted = <<>>
    /\ pricesValid = TRUE
    /\ clock = 0
    /\ faults = 0
    /\ WidgetDefaults

SpecStore == InitStore /\ [][Next]_vars

(* C10: a record that does not parse is read as if it were absent: no      *)
(* DemoTrading instance fails when it loads the ledger, none shows a NaN   *)
(* balance, and (at finite prices) no trade writes a NaN balance.          *)
C10_MalformedReadAsAbsent ==
    /\ \A d \in Demos : demo[d].status # "crashed"
    /\ pricesValid =>
         /\ \A d \in Demos : ~isNaN(demo[d].balance)
         /\ store.balance.k # "NaN"

---------------------------------------------------------------------------
(* C11: as long as nothing has been stored (the three records are absent,  *)
(* or only the widget has seeded 'balance'), every surface loads the seed  *)
(* snapshot: cash 1,000,000, no holdings, no transactions; whichever       *)
(* surface reads first.                                                    *)
C11_SeedOnFirstLoad ==
    (store = EmptyStore \/ store = initBalance(EmptyStore)) =>
       /\ loadDemo(store) = DemoDefaults("mounted")
       /\ \A d \in Demos : demo[d].status = "mounted" => demo[d] = DemoDefaults("mounted")
       /\ StoredBalance = Num(SeedBalance)
       /\ StoredPortfolio = <<>>
       /\ StoredTransactions = <<>>

\* DemoTrading has loaded the ledger before any widget was mounted
C11_Witness ==
    /\ store = EmptyStore
    /\ widget = "unmounted"
    /\ demo["d1"] = DemoDefaults("mounted")

---------------------------------------------------------------------------
(* stockApi.predict *)

\* the retries stockApi.predict starts with
InitialRetries == 2

\* the ways an HTTP attempt fails: the axios timeout ('timeout of 15000ms exceeded'),
\* a 404, a 400, another transport failure, and a response without data, for which
\* predict throws 'No data received from server' inside its own try
Failures == {"timeout", "404", "400", "other", "nodata"}

\* a || b for arrays: an array is truthy, also when it is empty
OrElse(a, b) == IF a.k = "array" THEN a ELSE b

\* api.get(`/api/predict/${ticker}`, ...)
sendRequest(call) ==
    IF call.simplify
    THEN [call EXCEPT !.pc = "request", !.sentSimplified = @ + 1]
    ELSE [call EXCEPT !.pc = "request", !.sent = @ + 1]

\* stockApi.predict(ticker, exchange, simplify) up to its first await
predict(call, simplify) ==
    sendRequest([call EXCEPT !.simplify = simplify, !.retries = InitialRetries,
                             !.delays = <<>>])

\* the predictionData that predict returns for response.data
predictionData(data, ticker) ==
    [ticker |-> IF data.ticker # "" THEN data.ticker ELSE ticker,
     current_price |-> data.current_price,
     prediction_dates |-> OrElse(data.prediction_dates, Array(<<>>)),
     prediction_prices |->
        OrElse(data.prediction_prices, OrElse(data.predicted_prices, Array(<<>>))),
     predicted_prices |-> UndefinedList,
     confidence |-> IF Falsy(data.confidence) THEN Confidence(0) ELSE data.confidence]

\* the delay before the next attempt, computed after retries--
backoff(retries) == 2000 * (3 - retries)

\* lastAttempt one attempt later
lastAttempt_oneLater(retries) == retries = 0 - 1

\* retries === 0: the failed attempt was the last one
lastAttempt(retries) == retries = 0

\* the catch block of predict: throw after the last attempt, else count down and wait
predictCatch(call, kind) ==
    IF lastAttempt(call.retries) THEN [call EXCEPT !.pc = "threw", !.err = kind]
    ELSE [call EXCEPT !.pc = "backoff", !.retries = @ - 1,
                      !.delays = Append(@, backoff(call.retries - 1))]

---------------------------------------------------------------------------
(* StockPredictionWidget.fetchPrediction *)

\* typeof a === 'number'
typeofNumber(a) == a.k \in {"num", "inf", "ninf", "nan"}

\* Array.isArray(a)
isArray(a) == a.k = "array"

\* the normalisation of the confidence
normalizeConfidence(confidence) ==
    IF confidence.k \in {"undefined", "null"} THEN Confidence(0)
    ELSE IF confidence.v < 1000 THEN Confidence(confidence.v * 100)
    ELSE confidence

\* prices = data.prediction_prices || data.predicted_prices || []
chosenPrices(data) ==
    OrElse(data.prediction_prices, OrElse(data.predicted_prices, Array(<<>>)))

normalizedData(data, symbol, prices) ==
    [ticker |-> IF data.ticker # "" THEN data.ticker ELSE symbol,
     current_price |-> IF typeofNumber(data.current_price) THEN data.current_price ELSE Num(0),
     prediction_dates |-> IF isArray(data.prediction_dates) THEN data.prediction_dates
                          ELSE Array(<<>>),
     prediction_prices |-> IF isArray(prices) THEN prices ELSE Array(<<>>),
     confidence |-> normalizeConfidence(data.confidence)]

\* the checks of the primary path: "invalid" | "empty" | "ok"
validate(data) ==
    IF \/ (~isArray(data.prediction_prices) /\ ~isArray(data.predicted_prices))
       \/ ~isArray(data.prediction_dates)
       \/ ~typeofNumber(data.current_price)
    THEN "invalid"
    ELSE IF Len(chosenPrices(data).v) = 0 \/ Len(data.prediction_dates.v) = 0 THEN "empty"
    ELSE "ok"

\* the check of the degraded path: one of the two price series is non-empty
acceptSimplified(data) ==
    \/ (isArray(data.prediction_prices) /\ Len(data.prediction_prices.v) > 0)
    \/ (isArray(data.predicted_prices) /\ Len(data.predicted_prices.v) > 0)

\* clearTimer that clears nothing
clearTimer_never(tm, ref) == tm

\* if (timeoutRef.current) clearTimeout(timeoutRef.current)
clearTimer(tm, ref) ==
    IF ref = "null" THEN tm
    ELSE [tm EXCEPT ![ref] = IF @ = "armed" THEN "cleared" ELSE @]

\* the widget's state that fetchPrediction reads and writes
CurrentWidget ==
    [prediction |-> prediction, error |-> error, loading |-> loading,
     timers |-> timers, timeoutRef |-> timeoutRef]

\* setPrediction, setError, setLoading
setState(w, p, e, l) == [w EXCEPT !.prediction = p, !.error = e, !.loading = l]

\* if (timeoutRef.current) { clearTimeout(timeoutRef.current); timeoutRef.current = null; }
clearTimeoutRef(w) ==
    [w EXCEPT !.timers = clearTimer(w.timers, w.timeoutRef), !.timeoutRef = "null"]

\* err.message of the error a failed attempt leaves
errMessage(err) ==
    CASE err = "timeout" -> "timeout of 15000ms exceeded"
      [] err = "404" -> "Request failed with status code 404"
      [] err = "400" -> "Request failed with status code 400"
      [] err = "nodata" -> "No data received from server"
      [] OTHER -> "Network Error"

\* the end of the catch block: the message for the error the primary predict threw
failureMessage(err, symbol) ==
    IF err = "404" THEN Message("not found", symbol)
    ELSE IF err = "400" THEN [Message("Cannot predict", symbol) EXCEPT !.detail = "Bad request"]
    ELSE [Message("Failed to fetch prediction", symbol) EXCEPT !.detail = errMessage(err)]

\* fetchPrediction after `await stockApi.predict(symbol, exchange)` has returned data
continuePrimary(call, w0, data) ==
    LET w == clearTimeoutRef(w0)
        v == validate(data)
        record == normalizedData(data, call.symbol, chosenPrices(data))
    IN  IF v = "invalid"
        THEN [call |-> [call EXCEPT !.pc = "done", !.outcome = "rejected"],
              w |-> setState(w, NoPrediction,
                             Message("Invalid prediction data", call.symbol), FALSE)]
        ELSE IF v = "empty"
        THEN [call |-> [call EXCEPT !.pc = "done", !.outcome = "rejected"],
              w |-> setState(w, NoPrediction,
                             Message("No prediction points", call.symbol), FALSE)]
        ELSE [call |-> [call EXCEPT !.pc = "done", !.outcome = "accepted", !.stored = record],
              w |-> setState(w, record, w.error, FALSE)]

\* fetchPrediction after `await stockApi.predict(symbol, "NSE", true)` has returned data
continueSimplified(call, w, data) ==
    IF acceptSimplified(data)
    THEN LET record == normalizedData(data, call.symbol, chosenPrices(data))
         IN  [call |-> [call EXCEPT !.pc = "done", !.outcome = "accepted", !.stored = record],
              w |-> setState(w, record, NoError, FALSE)]
    ELSE [call |-> [call EXCEPT !.pc = "done", !.outcome = "rejected"],
          w |-> setState(w, NoPrediction, failureMessage(call.err, call.symbol), FALSE)]

\* the catch block of fetchPrediction for the error the primary predict threw
catchPrimary(call, w0) ==
    LET w == clearTimeoutRef(w0)
    IN  IF call.err = "timeout"
        THEN [call |-> predict(call, TRUE),
              w |-> setState(w, w.prediction, Message("Request timed out", "none"), w.loading)]
        ELSE [call |-> [call EXCEPT !.pc = "done", !.outcome = "failed"],
              w |-> setState(w, NoPrediction, failureMessage(call.err, call.symbol), FALSE)]

\* catchSimplified without the `finally { setLoading(false) }` after it
catchSimplified_noFinally(call, w) ==
    [call |-> [call EXCEPT !.pc = "done", !.outcome = "failed"],
     w |-> setState(w, NoPrediction, failureMessage(call.err, call.symbol), w.loading)]

\* catch (retryErr): the degraded predict threw; the error of the primary one is reported
catchSimplified(call, w) ==
    [call |-> [call EXCEPT !.pc = "done", !.outcome = "failed"],
     w |-> setState(w, NoPrediction, failureMessage(call.err, call.symbol), FALSE)]

\* an HTTP attempt of the invocation came back with response.data
onResponse(call, w, data) ==
    LET c == [call EXCEPT !.raw = data]
    IN  IF call.simplify THEN continueSimplified(c, w, predictionData(data, call.symbol))
        ELSE continuePrimary(c, w, predictionData(data, call.symbol))

\* an HTTP attempt of the invocation failed
onFailure(call, w, kind) ==
    LET c == predictCatch(call, kind)
    IN  IF c.pc # "threw" THEN [call |-> c, w |-> w]
        ELSE IF call.simplify THEN catchSimplified([c EXCEPT !.err = call.err], w)
        ELSE catchPrimary(c, w)

---------------------------------------------------------------------------
(* The prediction fetch as a state machine *)

\* a good response: two dates, two prices, a price of 500000, confidence 0.82
GoodData ==
    [ticker |-> "", current_price |-> Num(500000),
     prediction_dates |-> Array(<<1, 2>>), prediction_prices |-> Array(<<510000, 520000>>),
     predicted_prices |-> UndefinedList, confidence |-> Confidence(820)]

\* the confidence values of the responses: absent, null, 0, 0.005, 0.82, 1, 82, 100,
\* 150 and -5
ConfidenceInputs ==
    {Undefined, Null} \cup
    {Confidence(n) : n \in {0, 5, 820, 1000, 82000, 100000, 150000, 0 - 5000}}

\* the response.data values of the model: the good response with each confidence, and
\* the good response with one of its other fields changed (dates absent, empty, or one
\* date for two prices; no numeric price; each combination of the two price fields)
ResponseInputs ==
    {[GoodData EXCEPT !.confidence = c] : c \in ConfidenceInputs}
    \cup {[GoodData EXCEPT !.prediction_dates = d] : d \in {UndefinedList, Array(<<>>)}}
    \cup {[GoodData EXCEPT !.prediction_dates = Array(<<1>>)]}
    \cup {[GoodData EXCEPT !.current_price = p] : p \in {Undefined, Null}}
    \cup {[GoodData EXCEPT !.prediction_prices = a, !.predicted_prices = b] :
              a \in {UndefinedList, Array(<<>>)},
              b \in {UndefinedList, Array(<<>>), Array(<<510000, 520000>>)}}

\* the widget has been mounted without a defaultTicker on an origin with no ledger
InitFetch ==
    /\ store = initBalance(EmptyStore)
    /\ widget = "mounted"
    /\ prediction = NoPrediction
    /\ demo = [d \in Demos |-> DemoDefaults("unmounted")]
    /\ accepted = <<>>
    /\ pricesValid = TRUE
    /\ clock = 0
    /\ faults = 0
    /\ WidgetDefaults

\* what the prediction fetch leaves alone
ledgerVars == <<store, demo, accepted, pricesValid, clock, faults>>

\* the state updates of a step of fetchPrediction; those of an unmounted component are lost
apply(c, r) ==
    /\ calls' = [calls EXCEPT ![c] = r.call]
    /\ timers' = r.w.timers
    /\ timeoutRef' = r.w.timeoutRef
    /\ IF widget = "mounted"
       THEN /\ prediction' = r.w.prediction
            /\ error' = r.w.error
            /\ loading' = r.w.loading
       ELSE UNCHANGED <<prediction, error, loading>>

\* fetchPrediction(symbol) up to its first await: the pending timer is cleared, a new
\* one is armed, and stockApi.predict sends its first request
StartFetch(c, symbol) ==
    /\ widget = "mounted"
    /\ calls[c].pc = "idle"
    /\ c = "c2" => calls["c1"].pc # "idle"
    /\ LET w == clearTimeoutRef(CurrentWidget)
       IN  apply(c, [call |-> predict([IdleCall EXCEPT !.symbol = symbol], FALSE),
                     w |-> [setState(w, w.prediction, NoError, TRUE)
                              EXCEPT !.timers = [w.timers EXCEPT ![c] = "armed"],
                                     !.timeoutRef = c]])
    /\ UNCHANGED <<widget, ledgerVars, yahooVars>>

\* the HTTP attempt in flight comes back with data
Respond(c, data) ==
    /\ calls[c].pc = "request"
    /\ apply(c, onResponse(calls[c], CurrentWidget, data))
    /\ UNCHANGED <<widget, ledgerVars, yahooVars>>

\* the HTTP attempt in flight fails
Fail(c, kind) ==
    /\ calls[c].pc = "request"
    /\ apply(c, onFailure(calls[c], CurrentWidget, kind))
    /\ UNCHANGED <<widget, ledgerVars, yahooVars>>

\* the backoff delay of predict has passed: the loop sends the next request (its
\* condition retries >= 0 holds, retries having been counted down from 2 or 1)
BackoffElapsed(c) ==
    /\ calls[c].pc = "backoff"
    /\ calls' = [calls EXCEPT ![c] = sendRequest(@)]
    /\ UNCHANGED <<widget, prediction, timers, timeoutRef, loading, error, ledgerVars, yahooVars>>

\* the primary request of the invocation has come back or failed for good
resolved(call) == call.pc = "done" \/ call.simplify

\* 8 s have passed since the timer of the invocation was armed, and it was not cleared;
\* the exception the callback throws reaches no handler
TimerFires(c) ==
    /\ timers[c] = "armed"
    /\ timers' = [timers EXCEPT ![c] = IF resolved(calls[c]) THEN "late" ELSE "fired"]
    /\ error' = IF widget = "mounted" THEN Message("taking longer than expected", "none")
                ELSE error
    /\ UNCHANGED <<widget, prediction, calls, timeoutRef, loading, ledgerVars, yahooVars>>

\* the widget is unmounted: the cleanup of the effect clears the timer
UnmountWidget ==
    /\ widget = "mounted"
    /\ widget' = "unmounted"
    /\ timers' = clearTimer(timers, timeoutRef)
    /\ UNCHANGED <<prediction, calls, timeoutRef, loading, error, ledgerVars, yahooVars>>

\* one invocation, and every response of the model
NextFetch ==
    \/ \E t \in Tickers : StartFetch("c1", t)
    \/ \E data \in ResponseInputs : Respond("c1", data)
    \/ \E kind \in Failures : Fail("c1", kind)
    \/ BackoffElapsed("c1")
    \/ TimerFires("c1")
    \/ UnmountWidget

\* the prediction fetch of one mounted widget
SpecFetch == InitFetch /\ [][NextFetch]_vars

\* the responses of overlapping invocations: the good one, and one the primary path rejects
OverlapInputs == {GoodData, [GoodData EXCEPT !.prediction_dates = Array(<<>>)]}

\* two invocations, the second one made at any time after the first
NextOverlap ==
    \/ \E c \in Calls, t \in Tickers : StartFetch(c, t)
    \/ \E c \in Calls, data \in OverlapInputs : Respond(c, data)
    \/ \E c \in Calls, kind \in Failures : Fail(c, kind)
    \/ \E c \in Calls : BackoffElapsed(c)
    \/ \E c \in Calls : TimerFires(c)
    \/ UnmountWidget

\* the prediction fetches of one mounted widget when a second request is made while the
\* first may still be in flight
SpecOverlap == InitFetch /\ [][NextOverlap]_vars

---------------------------------------------------------------------------
\* the HTTP attempts the running stockApi.predict of an invocation has made
attemptsOf(call) == IF call.simplify THEN call.sentSimplified ELSE call.sent

(* C12: a call of stockApi.predict makes at most 3 HTTP attempts; a         *)
(* response with data ends the call at once, with no further attempt; a    *)
(* failure of the first or second attempt is retried, and the failure of   *)
(* the third attempt is the error the call throws.                         *)
C12_AtMostThreeAttempts ==
    \A c \in Calls :
        /\ calls[c].sent <= 3
        /\ calls[c].sentSimplified <= 3
        /\ calls[c].pc = "request" =>
             /\ \A data \in ResponseInputs :
                   LET r == onResponse(calls[c], CurrentWidget, data).call
                   IN  /\ r.pc = "done"
                       /\ r.sent = calls[c].sent
                       /\ r.sentSimplified = calls[c].sentSimplified
             /\ \A kind \in Failures :
                   LET r == predictCatch(calls[c], kind)
                   IN  IF attemptsOf(calls[c]) = 3
                       THEN r.pc = "threw" /\ r.err = kind
                       ELSE r.pc = "backoff"

\* the third attempt of the primary call failed with a 404, and the widget reports it
C12_Witness ==
    /\ calls["c1"].sent = 3
    /\ calls["c1"].outcome = "failed"
    /\ calls["c1"].err = "404"
    /\ calls["c1"].sentSimplified = 0

---------------------------------------------------------------------------
(* C13: the n-th backoff delay of a call of stockApi.predict, waited after *)
(* failed attempt n, is 2000 ms * n: 2000 ms, then 4000 ms.                *)
C13_BackoffSchedule ==
    \A c \in Calls :
        \A n \in DOMAIN calls[c].delays : calls[c].delays[n] = 2000 * n

---------------------------------------------------------------------------
(* C14: an invocation makes at most one degraded (simplify=true) request:  *)
(* a degraded response with a non-empty price series is accepted and ends  *)
(* the invocation, and a failed degraded request ends it too.              *)
C14_DegradedOnce ==
    \A c \in Calls :
        /\ calls[c].sentSimplified <= 1
        /\ (calls[c].pc = "request" /\ calls[c].simplify) =>
             /\ \A data \in ResponseInputs :
                   Len(chosenPrices(data).v) > 0 =>
                      LET r == onResponse(calls[c], CurrentWidget, data).call
                      IN  r.pc = "done" /\ r.outcome = "accepted"
             /\ \A kind \in Failures :
                   onFailure(calls[c], CurrentWidget, kind).call.pc = "done"

\* the part of the statement that holds: a degraded response with prices is final
C14_DegradedResponseFinal ==
    \A c \in Calls :
        (calls[c].pc = "request" /\ calls[c].simplify) =>
           \A data \in ResponseInputs :
              Len(chosenPrices(data).v) > 0 =>
                 LET r == onResponse(calls[c], CurrentWidget, data).call
                 IN  r.pc = "done" /\ r.outcome = "accepted"

---------------------------------------------------------------------------
(* C15: no soft-timeout timer fires after the primary request it was armed *)
(* for has come back or failed for good, also when two invocations overlap *)
(* and share timeoutRef.                                                   *)
C15_TimerNeverLate ==
    \A c \in Calls : timers[c] # "late"

\* the second invocation is over while the first, made before it, is still in flight,
\* and both timers have been cleared
C15_Witness ==
    /\ calls["c1"].pc = "request"
    /\ calls["c2"].pc = "done"
    /\ timers["c1"] = "cleared"
    /\ timers["c2"] = "cleared"

---------------------------------------------------------------------------
(* C16: once two invocations for different tickers are both over, the      *)
(* widget shows the outcome of the later request: its prediction (none if  *)
(* it failed), no error that names the other ticker, and loading = false.  *)
C16_LatestRequestShown ==
    (/\ widget = "mounted"
     /\ calls["c1"].pc = "done"
     /\ calls["c2"].pc = "done"
     /\ calls["c1"].symbol # calls["c2"].symbol) =>
        /\ prediction = IF calls["c2"].outcome = "accepted" THEN calls["c2"].stored
                        ELSE NoPrediction
        /\ error.symbol \in {"none", calls["c2"].symbol}
        /\ loading = FALSE

---------------------------------------------------------------------------
(* C17: the confidence of every prediction record given to setPrediction   *)
(* is a number in [0, 100], whatever confidence the response carried, on   *)
(* the primary and on the degraded path.                                   *)
C17_ConfidenceInRange ==
    \A c \in Calls :
        calls[c].outcome = "accepted" =>
           /\ calls[c].stored.confidence.k = "num"
           /\ calls[c].stored.confidence.v >= 0
           /\ calls[c].stored.confidence.v <= 100 * 1000

---------------------------------------------------------------------------
\* the normalisation as stated: absent or null gives 0, [0, 1) is multiplied by 100,
\* every other value is kept
NormalizedAsClaimed(confidence) ==
    IF confidence.k \in {"undefined", "null"} THEN Confidence(0)
    ELSE IF confidence.v >= 0 /\ confidence.v < 1000 THEN Confidence(confidence.v * 100)
    ELSE confidence

(* C18: the confidence of an accepted record is the normalisation of the   *)
(* confidence of the response, applied once: absent or null gives 0, a     *)
(* value in [0, 1) is multiplied by 100, every other value is unchanged.   *)
C18_NormalizedOnce ==
    \A c \in Calls :
        calls[c].outcome = "accepted" =>
           calls[c].stored.confidence = NormalizedAsClaimed(calls[c].raw.confidence)

---------------------------------------------------------------------------
(* C19: normalisation is idempotent: normalising an accepted record again  *)
(* gives the same record.                                                  *)
C19_NormalizeIdempotent ==
    \A c \in Calls :
        calls[c].outcome = "accepted" =>
           normalizedData(calls[c].stored, calls[c].symbol, calls[c].stored.prediction_prices)
              = calls[c].stored

---------------------------------------------------------------------------
(* C20: a prediction is given to setPrediction only if the dates series    *)
(* and the chosen prices series of the response are non-empty arrays and   *)
(* its current_price is a number, on the primary and on the degraded path. *)
C20_AcceptedOnlyIfValid ==
    \A c \in Calls :
        calls[c].outcome = "accepted" =>
           /\ isArray(calls[c].raw.prediction_dates)
           /\ Len(calls[c].raw.prediction_dates.v) > 0
           /\ Len(chosenPrices(calls[c].raw).v) > 0
           /\ typeofNumber(calls[c].raw.current_price)

\* the same statement for the primary path
C20_PrimaryAcceptedOnlyIfValid ==
    \A c \in Calls :
        (calls[c].outcome = "accepted" /\ ~calls[c].simplify) =>
           /\ isArray(calls[c].raw.prediction_dates)
           /\ Len(calls[c].raw.prediction_dates.v) > 0
           /\ Len(chosenPrices(calls[c].raw).v) > 0
           /\ typeofNumber(calls[c].raw.current_price)

---------------------------------------------------------------------------
\* the first n elements of a series
Truncated(a, n) == Array(SubSeq(a.v, 1, n))

\* the smaller of two lengths
Shorter(m, n) == IF m < n THEN m ELSE n

(* C21: the dates and the prices of every accepted record have the same    *)
(* length: both series of the response cut to the shorter of the two; and  *)
(* a response whose non-empty series differ in length is accepted.         *)
C21_SeriesSameLength ==
    \A c \in Calls :
        /\ calls[c].outcome = "accepted" =>
              Len(calls[c].stored.prediction_dates.v) = Len(calls[c].stored.prediction_prices.v)
        /\ (/\ calls[c].pc = "done"
            /\ isArray(calls[c].raw.prediction_dates)
            /\ typeofNumber(calls[c].raw.current_price)
            /\ Len(calls[c].raw.prediction_dates.v) > 0
            /\ Len(chosenPrices(calls[c].raw).v) > 0) =>
              LET n == Shorter(Len(calls[c].raw.prediction_dates.v),
                               Len(chosenPrices(calls[c].raw).v))
              IN  /\ calls[c].outcome = "accepted"
                  /\ calls[c].stored.prediction_dates = Truncated(calls[c].raw.prediction_dates, n)
                  /\ calls[c].stored.prediction_prices = Truncated(chosenPrices(calls[c].raw), n)

\* the part of the statement that holds: a length mismatch is no reason to reject
C21_MismatchAccepted ==
    \A c \in Calls :
        (/\ calls[c].pc = "done"
         /\ isArray(calls[c].raw.prediction_dates)
         /\ typeofNumber(calls[c].raw.current_price)
         /\ Len(calls[c].raw.prediction_dates.v) > 0
         /\ Len(chosenPrices(calls[c].raw).v) > 0) => calls[c].outcome = "accepted"

---------------------------------------------------------------------------
\* a non-empty array
NonEmpty(a) == a.k = "array" /\ Len(a.v) > 0

\* the first non-empty one of prediction_prices and predicted_prices
FirstNonEmpty(data) ==
    IF NonEmpty(data.prediction_prices) THEN data.prediction_prices
    ELSE IF NonEmpty(data.predicted_prices) THEN data.predicted_prices
    ELSE Array(<<>>)

(* C22: the prices of a prediction are those of the first non-empty one of *)
(* prediction_prices and predicted_prices: a response with dates, a        *)
(* numeric price and a non-empty series in either field is accepted with   *)
(* that series, also when prediction_prices is present but empty.          *)
C22_FirstNonEmptyPrices ==
    \A c \in Calls :
        (/\ calls[c].pc = "done"
         /\ NonEmpty(calls[c].raw.prediction_dates)
         /\ typeofNumber(calls[c].raw.current_price)
         /\ NonEmpty(FirstNonEmpty(calls[c].raw))) =>
            /\ calls[c].outcome = "accepted"
            /\ Len(calls[c].stored.prediction_prices.v) > 0
            /\ IsPrefix(calls[c].stored.prediction_prices.v, FirstNonEmpty(calls[c].raw).v)

---------------------------------------------------------------------------
\* the failure kinds of the taxonomy: upstream 404, upstream 400, deadlines exceeded,
\* any other transport failure
FailureKinds == {"404", "400", "timeout", "other"}

(* C23: a failed fetch ends with an error outcome that tells the failure   *)
(* kind: the message form the widget shows for a 404, a 400, a timeout or  *)
(* another transport failure is the form of no other of these kinds.       *)
C23_OutcomePerFailureKind ==
    \A c \in Calls :
        (/\ widget = "mounted"
         /\ calls[c].pc = "done"
         /\ calls[c].outcome = "failed"
         /\ calls[c].err \in FailureKinds) =>
            /\ error.msg = failureMessage(calls[c].err, calls[c].symbol).msg
            /\ \A kind \in FailureKinds \ {calls[c].err} :
                  failureMessage(kind, calls[c].symbol).msg # error.msg

\* the part of the statement that holds: 404 and 400 have forms of their own
C23_NotFoundBadRequestDistinct ==
    \A c \in Calls :
        (/\ widget = "mounted"
         /\ calls[c].pc = "done"
         /\ calls[c].outcome = "failed"
         /\ calls[c].err \in {"404", "400"}) =>
            /\ error.msg = failureMessage(calls[c].err, calls[c].symbol).msg
            /\ \A kind \in FailureKinds \ {calls[c].err} :
                  failureMessage(kind, calls[c].symbol).msg # error.msg

---------------------------------------------------------------------------
(* yahooApi: the rate limiting request interceptor and the 429 retry of   *)
(* the response interceptor                                               *)

\* ticks of 500 ms that pass in one behaviour
MaxTicks == 8
\* HTTP requests that yahooApi sends in one behaviour
MaxDispatches == 3

\* const RATE_LIMIT_WINDOW = 1000
RATE_LIMIT_WINDOW == 1000

\* the request interceptor up to its await: the call waits when the last one was less
\* than RATE_LIMIT_WINDOW ago
requestInterceptor(req, last, t) ==
    IF t - last < RATE_LIMIT_WINDOW
    THEN [req EXCEPT !.pc = "delayed", !.wakeAt = t + (RATE_LIMIT_WINDOW - (t - last))]
    ELSE [req EXCEPT !.pc = "inflight", !.sent = @ + 1]

\* the response interceptor: a 429 waits 2000 ms and calls yahooApi(error.config),
\* every other error is thrown
responseInterceptor(req, status, t) ==
    IF status = 200 THEN [req EXCEPT !.pc = "done"]
    ELSE IF status = 429 THEN [req EXCEPT !.pc = "retrywait", !.wakeAt = t + 2000]
    ELSE [req EXCEPT !.pc = "failed"]

\* lastYahooApiCall = Date.now(); return config: the request goes on the wire
dispatch(r, req) ==
    /\ Len(dispatched) < MaxDispatches
    /\ yahoo' = [yahoo EXCEPT ![r] = req]
    /\ lastYahooApiCall' = time
    /\ dispatched' = Append(dispatched, time)

\* a call enters the request interceptor
enter(r) ==
    LET req == requestInterceptor(yahoo[r], lastYahooApiCall, time)
    IN  IF req.pc = "inflight" THEN dispatch(r, req)
        ELSE /\ yahoo' = [yahoo EXCEPT ![r] = req]
             /\ UNCHANGED <<lastYahooApiCall, dispatched>>

\* what the Yahoo Finance client leaves alone
otherVars == <<store, widget, prediction, demo, accepted, pricesValid, clock, faults,
               calls, timers, timeoutRef, loading, error>>

\* yahooApi.get(...) is called
YahooRequest(r) ==
    /\ yahoo[r].pc = "idle"
    /\ enter(r)
    /\ UNCHANGED <<time, otherVars>>

\* the wait of the request interceptor is over
YahooWake(r) ==
    /\ yahoo[r].pc = "delayed"
    /\ time >= yahoo[r].wakeAt
    /\ dispatch(r, [yahoo[r] EXCEPT !.pc = "inflight", !.sent = @ + 1])
    /\ UNCHANGED <<time, otherVars>>

\* the response of a request arrives, or it fails
YahooResponse(r, status) ==
    /\ yahoo[r].pc = "inflight"
    /\ yahoo' = [yahoo EXCEPT ![r] = responseInterceptor(@, status, time)]
    /\ UNCHANGED <<time, lastYahooApiCall, dispatched, otherVars>>

\* the wait after a 429 is over: yahooApi(error.config) enters the request interceptor
YahooRetry(r) ==
    /\ yahoo[r].pc = "retrywait"
    /\ time >= yahoo[r].wakeAt
    /\ enter(r)
    /\ UNCHANGED <<time, otherVars>>

\* 500 ms pass
Tick ==
    /\ time < LoadTime + 500 * MaxTicks
    /\ time' = time + 500
    /\ UNCHANGED <<lastYahooApiCall, yahoo, dispatched, otherVars>>

\* the statuses of the responses: success, rate limited, another failure
StatusInputs == {200, 429, 500}

NextYahoo ==
    \/ \E r \in Requests : YahooRequest(r)
    \/ \E r \in Requests : YahooWake(r)
    \/ \E r \in Requests, status \in StatusInputs : YahooResponse(r, status)
    \/ \E r \in Requests : YahooRetry(r)
    \/ Tick

\* the Yahoo Finance client of a page that has just been loaded
SpecYahoo == Init /\ [][NextYahoo]_vars

---------------------------------------------------------------------------
(* C24: any two requests that yahooApi puts on the wire are at least       *)
(* RATE_LIMIT_WINDOW (1 s) apart, also when several calls are in the       *)
(* request interceptor at the same time.                                   *)
C24_RequestsSpaced ==
    \A i, j \in DOMAIN dispatched :
        i < j => dispatched[j] - dispatched[i] >= RATE_LIMIT_WINDOW

---------------------------------------------------------------------------
(* C25: a call through yahooApi causes at most 2 HTTP requests: a 429 is   *)
(* retried once after the delay, and a 429 for the retry is thrown to the  *)
(* caller.                                                                 *)
C25_OneRetryOn429 ==
    \A r \in Requests :
        /\ yahoo[r].sent <= 2
        /\ (yahoo[r].pc = "inflight" /\ yahoo[r].sent = 2) =>
              responseInterceptor(yahoo[r], 429, time).pc = "failed"

\* the part of the statement that holds: the first 429 is retried after 2000 ms
C25_First429Retried ==
    \A r \in Requests :
        (yahoo[r].pc = "inflight" /\ yahoo[r].sent = 1) =>
           /\ responseInterceptor(yahoo[r], 429, time).pc = "retrywait"
           /\ responseInterceptor(yahoo[r], 429, time).wakeAt = time + 2000

---------------------------------------------------------------------------
(* DemoTrading: the average cost of a holding *)

\* x / n for a positive integer n: the exact quotient of a finite x, and
\* Infinity / n = Infinity, NaN / n = NaN
Div(x, n) == IF x.k = "num" THEN [k |-> "quot", num |-> x.v, den |-> n] ELSE ToNumber(x)

RECURSIVE reduceQty(_)
\* buys.reduce((sum, tx) => sum + tx.quantity, 0)
reduceQty(buys) ==
    IF buys = <<>> THEN 0
    ELSE reduceQty(SubSeq(buys, 1, Len(buys) - 1)) + buys[Len(buys)].quantity

RECURSIVE reduceCost(_)
\* buys.reduce((sum, tx) => sum + tx.quantity * tx.price, 0)
reduceCost(buys) ==
    IF buys = <<>> THEN Num(0)
    ELSE Add(reduceCost(SubSeq(buys, 1, Len(buys) - 1)),
             Mul(Num(buys[Len(buys)].quantity), buys[Len(buys)].price))

\* getAvgPrice without `tx.type === 'BUY'` in the filter
getAvgPrice_allLegs(transactions, ticker) ==
    LET buys == SelectSeq(transactions, LAMBDA tx : tx.ticker = ticker)
        totalQty == reduceQty(buys)
        totalCost == reduceCost(buys)
    IN  IF totalQty > 0 THEN Div(totalCost, totalQty) ELSE Num(0)

\* getAvgPrice of a DemoTrading instance whose state holds `transactions`
getAvgPrice(transactions, ticker) ==
    LET buys == SelectSeq(transactions, LAMBDA tx : tx.ticker = ticker /\ tx.type = "BUY")
        totalQty == reduceQty(buys)
        totalCost == reduceCost(buys)
    IN  IF totalQty > 0 THEN Div(totalCost, totalQty) ELSE Num(0)

\* one DemoTrading page and the widget
NextDemo ==
    \/ MountWidget
    \/ \E t \in Tickers, p \in PriceInputs : ReceivePrediction(t, p)
    \/ \E type \in {"BUY", "SELL"}, q \in PromptInputs : TradeWidget(type, q, 0)
    \/ MountDemo("d1")
    \/ UnmountDemo("d1")
    \/ \E t \in Tickers, type \in {"BUY", "SELL"}, q \in PromptInputs :
          TradeDemo("d1", t, type, q, 0)

\* the transactions a DemoTrading page can hold: those it loaded and those it made
SpecDemo == Init /\ [][NextDemo]_vars

\* the indices of the BUY legs of a ticker in a sequence of transactions
BuyLegs(txs, ticker) ==
    {i \in DOMAIN txs : txs[i].ticker = ticker /\ txs[i].type = "BUY"}

RECURSIVE SumQty(_, _)
\* the sum of the quantities of the legs at the indices `legs`
SumQty(txs, legs) ==
    IF legs = {} THEN 0
    ELSE LET i == CHOOSE j \in legs : TRUE
         IN  txs[i].quantity + SumQty(txs, legs \ {i})

RECURSIVE SumCost(_, _)
\* the sum of quantity * price of the legs at the indices `legs`
SumCost(txs, legs) ==
    IF legs = {} THEN Num(0)
    ELSE LET i == CHOOSE j \in legs : TRUE
         IN  Add(Mul(Num(txs[i].quantity), txs[i].price), SumCost(txs, legs \ {i}))

---------------------------------------------------------------------------
(* C26: getAvgPrice(ticker) is sum(BUY quantity * BUY price) / sum(BUY     *)
(* quantity) over the transactions of the ticker, ignores every SELL leg   *)
(* (the log without its SELL legs has the same average), is 0 when the     *)
(* ticker has no BUY, and a SELL trade leaves it as it was.                *)
C26_AvgPriceOverBuys ==
    \A d \in Demos :
        demo[d].status = "mounted" =>
            LET txs == demo[d].transactions
                avg == [t \in Tickers |-> getAvgPrice(txs, t)]
            IN  /\ \A t \in Tickers :
                   /\ avg[t] =
                         IF BuyLegs(txs, t) = {} THEN Num(0)
                         ELSE Div(SumCost(txs, BuyLegs(txs, t)), SumQty(txs, BuyLegs(txs, t)))
                   /\ avg[t] = getAvgPrice(SelectSeq(txs, LAMBDA tx : tx.type # "SELL"), t)
                /\ \A t \in Tickers, q \in Quantities :
                      LET r == handlePortfolioTrade(store, demo[d], t, "SELL", Numeral(q),
                                                    0, clock + 1)
                      IN  [s \in Tickers |-> getAvgPrice(r.state.transactions, s)] = avg

\* a mounted DemoTrading shows a ticker that was bought and sold, with its average
\* cost, and a SELL of it is possible; the other ticker has no BUY
C26_Witness ==
    \E d \in Demos, t \in Tickers :
        /\ demo[d].status = "mounted"
        /\ \E i, j \in DOMAIN demo[d].transactions :
              /\ demo[d].transactions[i].ticker = t /\ demo[d].transactions[i].type = "BUY"
              /\ demo[d].transactions[j].ticker = t /\ demo[d].transactions[j].type = "SELL"
        /\ getAvgPrice(demo[d].transactions, t).k = "quot"
        /\ handlePortfolioTrade(store, demo[d], t, "SELL", Numeral(1), 0,
                                clock + 1).result.outcome = "placed"
        /\ \E s \in Tickers : getAvgPrice(demo[d].transactions, s) = Num(0)

---------------------------------------------------------------------------
(* C27: when the 8 s timer of an invocation fires while its primary        *)
(* request has not resolved, the primary request is abandoned and control  *)
(* reaches the catch block, which sends the degraded (simplify=true)       *)
(* request: the firing leaves the invocation in its degraded phase.        *)
C27_SoftTimerStartsDegraded ==
    [][(timers["c1"] = "armed" /\ timers'["c1"] = "fired") =>
          /\ calls'["c1"].simplify
          /\ calls'["c1"].sentSimplified = 1]_vars

\* what the firing does: the interim message is set, and the invocation goes on
\* as it was, its primary request still pending
C27_TimerOnlySetsMessage ==
    [][(timers["c1"] = "armed" /\ timers'["c1"] = "fired") =>
          /\ calls' = calls
          /\ widget = "mounted" => error' = Message("taking longer than expected", "none")]_vars

---------------------------------------------------------------------------
(* C28: when fetchPrediction has completed with a valid response (primary  *)
(* or degraded), the widget holds the prediction and error = null; a       *)
(* message the 8 s timer set while the request was pending does not remain. *)
C28_SuccessClearsError ==
    (/\ widget = "mounted"
     /\ calls["c1"].pc = "done"
     /\ calls["c1"].outcome = "accepted") =>
        /\ prediction = calls["c1"].stored
        /\ error = NoError

\* the same statement for the degraded response alone
C28_DegradedSuccessClearsError ==
    (/\ widget = "mounted"
     /\ calls["c1"].pc = "done"
     /\ calls["c1"].outcome = "accepted"
     /\ calls["c1"].simplify) =>
        /\ prediction = calls["c1"].stored
        /\ error = NoError

---------------------------------------------------------------------------
(* C29: in every reachable state the persisted balance is 1,000,000 minus  *)
(* the sum of quantity * price over the BUY records plus the sum of        *)
(* quantity * price over the SELL records of the persisted log, for any    *)
(* interleaving of trades from both surfaces.                              *)
C29_BalanceIsSeedPlusNetCash ==
    StoredBalance = Add(Num(SeedBalance), NetCash(StoredTransactions))

\* the same statement as long as every trade was made at a finite price
C29_BalanceAtFinitePrices ==
    pricesValid => StoredBalance = Add(Num(SeedBalance), NetCash(StoredTransactions))

---------------------------------------------------------------------------
(* Termination of fetchPrediction: every HTTP attempt in flight eventually *)
(* comes back or fails (axios gives each one a timeout), and the setTimeout *)
(* of a backoff delay eventually elapses.                                  *)
SpecFetchLive ==
    /\ SpecFetch
    /\ WF_vars(\/ \E data \in ResponseInputs : Respond("c1", data)
               \/ \E kind \in Failures : Fail("c1", kind))
    /\ WF_vars(BackoffElapsed("c1"))

\* no request of the invocation is in flight or about to be sent
quiescent(call) == call.pc \in {"idle", "done"}

(* C30: every fetchPrediction call terminates, given that each HTTP attempt *)
(* eventually succeeds, fails or times out: it makes at most 6 HTTP        *)
(* attempts (3 primary, 3 degraded) and ends with loading = false and a    *)
(* stored prediction or a non-null error; loading is not left true once no *)
(* request is in flight.                                                   *)
C30_FetchTerminates ==
    /\ [](/\ calls["c1"].sent <= 3
          /\ calls["c1"].sentSimplified <= 3
          /\ calls["c1"].sent + calls["c1"].sentSimplified <= 6)
    /\ []((widget = "mounted" /\ quiescent(calls["c1"])) => loading = FALSE)
    /\ []((widget = "mounted" /\ calls["c1"].pc = "done") =>
             (prediction # NoPrediction \/ error # NoError))
    /\ (calls["c1"].pc # "idle") ~> (calls["c1"].pc = "done")

\* the longest invocation: 3 primary attempts that time out, 3 degraded attempts that
\* fail, and the widget shows the error with the spinner off
C30_Witness ==
    /\ widget = "mounted"
    /\ calls["c1"].pc = "done"
    /\ calls["c1"].sent = 3
    /\ calls["c1"].sentSimplified = 3
    /\ loading = FALSE
    /\ prediction = NoPrediction
    /\ error # NoError

=============================================================================
